---- MODULE Spec2Model ----
(***************************************************************************)
(* RepositoryAnalyzer of backend/src/scripts/analyzeRepository.py: one     *)
(* request clones a repository into a temporary directory, runs six        *)
(* analyzers against it, aggregates their scores and removes the           *)
(* directory.  The state is the analyzer object's analysis_results, the    *)
(* position of run_analysis, the temporary directory on disk, the cloned   *)
(* content, and a record of what the environment (git, flake8, radon,      *)
(* eslint, the filesystem) did.                                            *)
(*                                                                         *)
(* code_quality_score and average_complexity are Python floats rounded to  *)
(* two decimals; they are kept here in hundredths (x 100).                 *)
(***************************************************************************)
EXTENDS Integers, Sequences, FiniteSets, TLC

\* ---------------------------------------------------------------- bounds
\* Most lines flake8 writes to stderr / most messages eslint reports.
MaxIssues == 1
\* Most functions in radon's output.
MaxFunctions == 1
\* Most workflow files under .github/workflows.
MaxWorkflows == 3
\* The most sentence ends, and the most fenced code blocks, of a README.
MaxSentences == 2
MaxCodeExamples == 1
\* The longest average sentence, in words, of a README.
MaxSentenceLength == 41
\* The most findings of a linter, and the highest complexity of a function,
\* where one tool is taken over every signal it can give.
MaxFindings == 61
MaxComplexity == 21

\* ------------------------------------------------------- Python helpers
None == "None"
EmptyDict == [k \in {} |-> 0]
Get(d, key, default) == IF key \in DOMAIN d THEN d[key] ELSE default
min(a, b) == IF a <= b THEN a ELSE b
max(a, b) == IF a >= b THEN a ELSE b

\* round(num / den, 2) in hundredths, half to even.
Round2(num, den) ==
    LET twice == 200 * num + den
        q == twice \div (2 * den)
    IN  IF twice % (2 * den) = 0 /\ q % 2 = 1 THEN q - 1 ELSE q

\* --------------------------------------------------------- the workspace
eslint_config == {".eslintrc.json", ".eslintrc.js", ".eslintrc.yml", ".eslintrc.yaml", "package.json"}
dependency_files ==
    [has_package_json |-> "package.json", has_requirements_txt |-> "requirements.txt",
     has_pipfile |-> "Pipfile", has_setup_py |-> "setup.py",
     has_cargo_toml |-> "Cargo.toml", has_go_mod |-> "go.mod"]
lock_files == {"package-lock.json", "yarn.lock", "Pipfile.lock", "Cargo.lock", "go.sum", "poetry.lock"}
dependency_security_files == {".snyk", "security.md", ".github/FUNDING.yml"}
security_files ==
    [has_security_md |-> "SECURITY.md", has_github_security_policy |-> ".github/SECURITY.md"]

Sections == {"installation", "usage", "contributing", "license"}

\* A README as analyze_documentation reads it: whether one of the README
\* file names exists, its length, the sections its headings match, its
\* fenced code blocks, its words and sentence ends.
NoReadme ==
    [present |-> FALSE, length |-> 0, sections |-> {}, code_examples |-> 0,
     words |-> 0, sentences |-> 0]
Readmes ==
    {NoReadme,
     [present |-> TRUE, length |-> 300, sections |-> {}, code_examples |-> 0,
      words |-> 50, sentences |-> 1],
     [present |-> TRUE, length |-> 900, sections |-> Sections, code_examples |-> 1,
      words |-> 120, sentences |-> 10]}

\* Every README file of up to MaxSentences sentence ends, MaxCodeExamples
\* fenced blocks and MaxSentenceLength words a sentence: the empty file, the
\* file of white space only, and every text.  A heading, a fenced block and
\* a sentence end are each part of a word (line 355: split()).
EmptyReadme == [NoReadme EXCEPT !.present = TRUE]
BlankReadme == [EmptyReadme EXCEPT !.length = 1]
ReadmeTexts ==
    {[present |-> TRUE, length |-> 6 * w, sections |-> s, code_examples |-> c,
      words |-> w, sentences |-> n] :
        s \in SUBSET Sections, c \in 0..MaxCodeExamples,
        w \in 1..(MaxSentenceLength * MaxSentences), n \in 0..MaxSentences}
ReadmeFiles == {EmptyReadme, BlankReadme} \cup ReadmeTexts

\* A workflow file: whether it can be read, and which keywords it mentions.
WorkflowFile(r, d, c) == [readable |-> r, dependabot |-> d, codeql |-> c]
Repeat(x, n) == [i \in 1..n |-> x]
Workflows ==
    {<<>>,
     Repeat(WorkflowFile(TRUE, TRUE, TRUE), MaxWorkflows),
     <<WorkflowFile(FALSE, TRUE, TRUE), WorkflowFile(TRUE, TRUE, FALSE)>>}

\* The marker files in the repository: every union of these groups.
MarkerGroups ==
    <<{"package.json", "requirements.txt", "Pipfile", "setup.py", "Cargo.toml", "go.mod",
       "poetry.lock", ".snyk"},
      {"SECURITY.md", ".github/SECURITY.md"}>>
MarkerSets ==
    {UNION {MarkerGroups[i] : i \in picked} : picked \in SUBSET (DOMAIN MarkerGroups)}

\* setup.py is itself a Python file (line 90: rglob('*.py')).
Workspaces ==
    {ws \in [python_files : BOOLEAN, source_files : BOOLEAN, files : MarkerSets,
              readme : Readmes, workflows : Workflows] :
        "setup.py" \in ws.files => ws.python_files}

EmptyWorkspace ==
    [python_files |-> FALSE, source_files |-> FALSE, files |-> {},
     readme |-> NoReadme, workflows |-> <<>>]

exists(ws, name) == name \in ws.files

\* ----------------------------------------------------- the environment
\* What one external tool did: subprocess.run raised (TimeoutExpired, or
\* another exception such as the tool not being installed) or completed
\* with a return code and an output.  `crashed` is what really happened
\* when flake8 exits non-zero; the code cannot read it.
NotInvoked == [kind |-> "not_invoked"]
Skipped == [kind |-> "skipped"]
Raised(e) == [kind |-> e]

\* <<issues, critical issues>>: a critical issue is an issue.
IssueCounts == {nk \in (0..MaxIssues) \X (0..MaxIssues) : nk[2] <= nk[1]}

\* A crash writes at least a line of its traceback to stderr.
Flake8Procs ==
    {Raised("TimeoutExpired"), Raised("Exception")}
        \cup {[kind |-> "completed", returncode |-> 0, lines |-> 0, critical |-> 0, crashed |-> FALSE]}
        \cup {[kind |-> "completed", returncode |-> 1, lines |-> nk[1], critical |-> nk[2], crashed |-> FALSE] :
                nk \in IssueCounts}
        \cup {[kind |-> "completed", returncode |-> 1, lines |-> nk[1], critical |-> nk[2], crashed |-> TRUE] :
                nk \in {c \in IssueCounts : c[1] > 0}}

\* radon's stdout: not JSON, or the complexity of each function it lists.
Complexities == {3, 30}
FunctionLists == UNION {[1..n -> Complexities] : n \in 0..MaxFunctions}
RadonProcs ==
    {Raised("TimeoutExpired"), Raised("Exception")}
        \cup {[kind |-> "completed", returncode |-> 1, stdout |-> [json |-> FALSE]]}
        \cup {[kind |-> "completed", returncode |-> 0, stdout |-> [json |-> FALSE]]}
        \cup {[kind |-> "completed", returncode |-> 0, stdout |-> [json |-> TRUE, functions |-> fl]] :
                fl \in FunctionLists}

\* eslint's stdout: not JSON, or the messages and the critical ones among them.
EslintProcs ==
    {Raised("TimeoutExpired"), Raised("Exception")}
        \cup {[kind |-> "completed", returncode |-> 2, stdout |-> [json |-> FALSE]]}
        \cup {[kind |-> "completed", returncode |-> 1, stdout |-> [json |-> FALSE]]}
        \cup {[kind |-> "completed", returncode |-> (IF nk[1] = 0 THEN 0 ELSE 1),
               stdout |-> [json |-> TRUE, total |-> nk[1], critical |-> nk[2]]] :
                nk \in IssueCounts}

\* ------------------------------------------------------- the analyzers
\* flake8_penalty without the cap of line 125.
flake8_penalty_uncapped(issue_count, critical_count) ==
    (issue_count * 2) + (critical_count * 5)

\* Line 125.
flake8_penalty(issue_count, critical_count) ==
    min(50, (issue_count * 2) + (critical_count * 5))

\* Lines 79-135.
run_flake8_analysis(ws, proc) ==
    LET results == [score |-> 0, issues |-> 0, critical_issues |-> 0, details |-> EmptyDict]
    IN  IF ~ws.python_files
        THEN [results EXCEPT !.details = [message |-> "No Python files found"]]
        ELSE IF proc.kind = "TimeoutExpired"
        THEN [results EXCEPT !.details = [timeout |-> TRUE], !.score = 0]
        ELSE IF proc.kind = "Exception"
        THEN [results EXCEPT !.details = [error |-> "Exception"], !.score = 0]
        ELSE IF proc.returncode = 0
        THEN [results EXCEPT !.score = 90]
        ELSE LET issue_count == proc.lines
                 critical_count == proc.critical
                 base_score == 80
                 penalty == flake8_penalty(issue_count, critical_count)
             IN  [results EXCEPT !.issues = issue_count,
                                 !.critical_issues = critical_count,
                                 !.score = max(0, base_score - penalty)]

Sum(seq) == LET RECURSIVE S(_)
                S(i) == IF i = 0 THEN 0 ELSE seq[i] + S(i - 1)
            IN  S(Len(seq))

\* Lines 177-188: the score band of total_complexity / function_count.
complexity_band(total_complexity, function_count) ==
    IF total_complexity <= 5 * function_count THEN 90
    ELSE IF total_complexity <= 10 * function_count THEN 70
    ELSE IF total_complexity <= 20 * function_count THEN 40
    ELSE 20

\* Lines 137-204.
run_radon_analysis(ws, proc) ==
    LET results == [complexity_score |-> 0, average_complexity |-> 0,
                    complex_functions |-> 0, details |-> EmptyDict]
    IN  IF ~ws.python_files
        THEN results
        ELSE IF proc.kind = "TimeoutExpired"
        THEN [results EXCEPT !.details = [timeout |-> TRUE]]
        ELSE IF proc.kind = "Exception"
        THEN [results EXCEPT !.details = [error |-> "Exception"]]
        ELSE IF proc.returncode # 0
        THEN [results EXCEPT !.details = [error |-> "Radon analysis failed"]]
        ELSE IF ~proc.stdout.json
        THEN [results EXCEPT !.details = [error |-> "Failed to parse radon output"]]
        ELSE LET complexity == proc.stdout.functions
                 total_complexity == Sum(complexity)
                 function_count == Len(complexity)
                 complex_fn_count == Cardinality({i \in DOMAIN complexity : complexity[i] > 10})
             IN  IF function_count > 0
                 THEN [results EXCEPT
                         !.complexity_score = complexity_band(total_complexity, function_count),
                         !.average_complexity = Round2(total_complexity, function_count),
                         !.complex_functions = complex_fn_count]
                 ELSE results

\* Lines 206-287.
run_eslint_analysis(ws, proc) ==
    LET results == [score |-> 0, issues |-> 0, critical_issues |-> 0, details |-> EmptyDict]
        has_eslint_config == \E config \in eslint_config : exists(ws, config)
    IN  IF ~ws.source_files
        THEN [results EXCEPT !.details = [message |-> "No JS/TS files found"]]
        ELSE IF ~has_eslint_config
        THEN [results EXCEPT !.details = [message |-> "No ESLint configuration found"],
                             !.score = 40]
        ELSE IF proc.kind = "TimeoutExpired"
        THEN [results EXCEPT !.details = [timeout |-> TRUE], !.score = 0]
        ELSE IF proc.kind = "Exception"
        THEN [results EXCEPT !.details = [error |-> "Exception"], !.score = 0]
        ELSE IF proc.returncode \notin {0, 1}
        THEN [results EXCEPT !.details = [error |-> "ESLint execution failed"], !.score = 20]
        ELSE IF ~proc.stdout.json
        THEN [results EXCEPT !.details = [error |-> "Failed to parse ESLint output"],
                             !.score = 30]
        ELSE LET total_issues == proc.stdout.total
                 critical_issues == proc.stdout.critical
                 base_score == 80
                 penalty == min(60, (total_issues * 1) + (critical_issues * 3))
             IN  [results EXCEPT !.issues = total_issues,
                                 !.critical_issues = critical_issues,
                                 !.score = max(0, base_score - penalty)]

\* Every signal a tool can give up to MaxFindings findings and functions of
\* complexity up to MaxComplexity: the tool ran to its end and its output
\* parses.  flake8 exits with 1 also when it wrote nothing to stderr.
Findings == {nk \in (0..MaxFindings) \X (0..MaxFindings) : nk[2] <= nk[1]}
Flake8Signals ==
    {[kind |-> "completed", returncode |-> 0, lines |-> 0, critical |-> 0, crashed |-> FALSE]}
        \cup {[kind |-> "completed", returncode |-> 1, lines |-> nk[1], critical |-> nk[2],
                crashed |-> FALSE] : nk \in Findings}
RadonSignals ==
    {[kind |-> "completed", returncode |-> 0, stdout |-> [json |-> TRUE, functions |-> fl]] :
        fl \in UNION {[1..n -> 1..MaxComplexity] : n \in 1..(MaxFunctions + 1)}}
EslintSignals ==
    {[kind |-> "completed", returncode |-> (IF nk[1] = 0 THEN 0 ELSE 1),
      stdout |-> [json |-> TRUE, total |-> nk[1], critical |-> nk[2]]] : nk \in Findings}

\* What the filesystem did to an analyzer that only reads files.
FileReads == {[kind |-> "read"], Raised("Exception")}

\* Lines 358-366: the readability band of words / max(1, sentences).
readability_band(words, sentences) ==
    IF words <= 15 * max(1, sentences) THEN 90
    ELSE IF words <= 25 * max(1, sentences) THEN 70
    ELSE IF words <= 40 * max(1, sentences) THEN 50
    ELSE 30

\* documentation_clamp without the clamp of line 387.
documentation_unclamped(score) == score

\* Line 387.
documentation_clamp(score) == max(0, min(100, score))

\* Lines 289-393.
analyze_documentation(ws, fs) ==
    LET results == [score |-> 0, readme_length |-> 0, has_code_examples |-> FALSE,
                    has_installation |-> FALSE, has_contributing |-> FALSE,
                    readability_score |-> 0, details |-> EmptyDict]
        readme == ws.readme
    IN  IF fs.kind = "Exception"
        THEN [results EXCEPT !.details = [error |-> "Exception"], !.score = 10]
        ELSE IF readme.length = 0
        THEN [results EXCEPT !.details = [message |-> "No README file found"]]
        ELSE LET readability_score == readability_band(readme.words, readme.sentences)
                 base_score == 40
                     + (IF "installation" \in readme.sections THEN 15 ELSE 0)
                     + (IF "usage" \in readme.sections THEN 10 ELSE 0)
                     + (IF "contributing" \in readme.sections THEN 10 ELSE 0)
                     + (IF readme.code_examples > 0 THEN 15 ELSE 0)
                     + (IF "license" \in readme.sections THEN 10 ELSE 0)
                 readability_bonus == (readability_score - 50) \div 2
             IN  [results EXCEPT
                     !.readme_length = readme.length,
                     !.has_installation = "installation" \in readme.sections,
                     !.has_contributing = "contributing" \in readme.sections,
                     !.has_code_examples = readme.code_examples > 0,
                     !.readability_score = readability_score,
                     !.score = documentation_clamp(base_score + readability_bonus)]

\* Lines 395-451.  An exception is taken at the first filesystem call.
analyze_dependencies(ws, fs) ==
    LET flags == [key \in DOMAIN dependency_files |->
                    fs.kind # "Exception" /\ exists(ws, dependency_files[key])]
        has_lock_files == \E lock_file \in lock_files : exists(ws, lock_file)
        has_security_config == \E security_file \in dependency_security_files : exists(ws, security_file)
        score == 15 * Cardinality({key \in DOMAIN flags : flags[key]})
                    + (IF has_lock_files THEN 20 ELSE 0)
                    + (IF has_security_config THEN 10 ELSE 0)
        details == (IF has_lock_files THEN [has_lockfiles |-> TRUE] ELSE EmptyDict)
                    @@ (IF has_security_config THEN [has_security_config |-> TRUE] ELSE EmptyDict)
    IN  IF fs.kind = "Exception"
        THEN flags @@ [score |-> min(100, 0), details |-> [error |-> "Exception"]]
        ELSE flags @@ [score |-> min(100, score), details |-> details]

\* Lines 483-497: the points the workflow files add, an unreadable one none.
RECURSIVE workflow_score(_)
workflow_score(workflow_files) ==
    IF workflow_files = <<>> THEN 0
    ELSE LET content == Head(workflow_files)
         IN  (IF content.readable /\ content.dependabot THEN 15 ELSE 0)
                + (IF content.readable /\ content.codeql THEN 15 ELSE 0)
                + workflow_score(Tail(workflow_files))

\* security_baseline without lines 500-501.
security_baseline_missing(score) == score

\* Lines 499-501: a repository with no security measure scores 30.
security_baseline(score) == IF score = 0 THEN 30 ELSE score

\* Lines 453-507.  An exception is taken at the first filesystem call.
analyze_security(ws, fs) ==
    LET results == [score |-> 0, has_security_md |-> FALSE,
                    has_github_security_policy |-> FALSE, has_dependabot_config |-> FALSE,
                    has_codeql_config |-> FALSE, details |-> EmptyDict]
        has(key) == exists(ws, security_files[key])
        files == ws.workflows
        score == (IF has("has_security_md") THEN 20 ELSE 0)
                    + (IF has("has_github_security_policy") THEN 20 ELSE 0)
                    + workflow_score(files)
    IN  IF fs.kind = "Exception"
        THEN [results EXCEPT !.details = [error |-> "Exception"], !.score = 10]
        ELSE [results EXCEPT
                !.has_security_md = has("has_security_md"),
                !.has_github_security_policy = has("has_github_security_policy"),
                !.has_dependabot_config =
                    \E i \in DOMAIN files : files[i].readable /\ files[i].dependabot,
                !.has_codeql_config =
                    \E i \in DOMAIN files : files[i].readable /\ files[i].codeql,
                !.score = security_baseline(score)]

\* ------------------------------------------------------- the aggregate
\* aggregate_code_score with no neutral default: a zero total weight scores 0.
aggregate_code_score_no_default(flake8_score, eslint_score, complexity_score) ==
    LET weights == [flake8 |-> IF flake8_score > 0 THEN 4 ELSE 0,
                    eslint |-> IF eslint_score > 0 THEN 4 ELSE 0,
                    complexity |-> IF complexity_score > 0 THEN 2 ELSE 0]
        total_weight == weights.flake8 + weights.eslint + weights.complexity
    IN  IF total_weight > 0
        THEN Round2((flake8_score * weights.flake8) + (eslint_score * weights.eslint)
                        + (complexity_score * weights.complexity), total_weight)
        ELSE 0

\* Lines 563-577, in hundredths; the weights 0.4, 0.4, 0.2 in tenths.
aggregate_code_score(flake8_score, eslint_score, complexity_score) ==
    LET weights == [flake8 |-> IF flake8_score > 0 THEN 4 ELSE 0,
                    eslint |-> IF eslint_score > 0 THEN 4 ELSE 0,
                    complexity |-> IF complexity_score > 0 THEN 2 ELSE 0]
        total_weight == weights.flake8 + weights.eslint + weights.complexity
    IN  IF total_weight > 0
        THEN Round2((flake8_score * weights.flake8) + (eslint_score * weights.eslint)
                        + (complexity_score * weights.complexity), total_weight)
        ELSE 50 * 100

\* calculate_aggregate_scores reading the dependency score under the key of
\* the timestamp.
calculate_aggregate_scores_wrong_key(results) ==
    LET flake8_score == Get(Get(results.code_quality, "flake8", EmptyDict), "score", 0)
        eslint_score == Get(Get(results.code_quality, "eslint", EmptyDict), "score", 0)
        complexity_score == Get(results.complexity, "complexity_score", 0)
    IN  [aggregate |->
            [code_quality_score |-> aggregate_code_score(flake8_score, eslint_score, complexity_score),
             documentation_score |-> Get(results.documentation, "score", 0),
             security_score |-> Get(results.security, "score", 0),
             dependency_score |-> Get(results, "timestamp", 0)]] @@ results

\* Lines 556-585.
calculate_aggregate_scores(results) ==
    LET flake8_score == Get(Get(results.code_quality, "flake8", EmptyDict), "score", 0)
        eslint_score == Get(Get(results.code_quality, "eslint", EmptyDict), "score", 0)
        complexity_score == Get(results.complexity, "complexity_score", 0)
    IN  [aggregate |->
            [code_quality_score |-> aggregate_code_score(flake8_score, eslint_score, complexity_score),
             documentation_score |-> Get(results.documentation, "score", 0),
             security_score |-> Get(results.security, "score", 0),
             dependency_score |-> Get(results.dependencies, "score", 0)]] @@ results

\* ---------------------------------------------------- the state machine
VARIABLES
    pc,                 \* where run_analysis is
    repo_path,          \* run_analysis's local: None or the temporary directory
    temp_dir_exists,    \* whether the directory mkdtemp made is on disk
    workspace,          \* the content cloned into it
    analysis_results,   \* self.analysis_results
    env,                \* what the environment did to each analyzer invoked
    rmtree_calls,       \* how often shutil.rmtree was called
    previous            \* what an earlier run of the script saw and reported

vars ==
    <<pc, repo_path, temp_dir_exists, workspace, analysis_results, env, rmtree_calls,
      previous>>

Analyzers == {"flake8", "radon", "eslint", "documentation", "dependencies", "security"}
TryPositions == Analyzers \cup {"aggregate"}

\* Lines 32-42: the report __init__ makes at time.time() = timestamp.
new_results(timestamp) ==
    [repository |-> "owner/repo", timestamp |-> timestamp,
     code_quality |-> EmptyDict, documentation |-> EmptyDict, security |-> EmptyDict,
     dependencies |-> EmptyDict, complexity |-> EmptyDict, errors |-> <<>>, warnings |-> <<>>]

\* No run of the script came before this one.
NoPreviousRun == [kind |-> "none"]

\* Lines 29-42: __init__, in the first run of the script, at time 0.
Init ==
    /\ pc = "clone"
    /\ repo_path = None
    /\ temp_dir_exists = FALSE
    /\ workspace = EmptyWorkspace
    /\ analysis_results = new_results(0)
    /\ env = [a \in Analyzers |-> NotInvoked]
    /\ rmtree_calls = 0
    /\ previous = NoPreviousRun

\* What git clone did; "mkdtemp" is an exception before the directory was made.
GitOutcomes == {"cloned", "CalledProcessError", "TimeoutExpired", "Exception", "mkdtemp"}

\* Line 56: the names mkdtemp can give the directory.  Its random suffix
\* makes the name of a directory that is on disk impossible and every
\* other name possible: a second run can get the name of the first run's
\* directory only when that directory is gone.
mkdtemp(earlier) ==
    IF earlier.kind = "none" THEN {"temp_dir"}
    ELSE {"temp_dir_2"} \cup (IF earlier.temp_dir_exists THEN {} ELSE {"temp_dir"})

\* Lines 53-77: the path returned, whether mkdtemp made the directory, the errors.
clone_repository(results, git, temp_dir) ==
    [repo_path |-> IF git = "cloned" THEN temp_dir ELSE None,
     temp_dir_exists |-> git # "mkdtemp",
     analysis_results |->
        IF git = "cloned" THEN results
        ELSE IF git = "CalledProcessError"
        THEN [results EXCEPT !.errors = Append(@, "Failed to clone repository")]
        ELSE IF git = "TimeoutExpired"
        THEN [results EXCEPT !.errors = Append(@, "Repository cloning timed out")]
        ELSE [results EXCEPT !.errors = Append(@, "Unexpected error during clone")]]

\* after_clone without the test of line 516.
after_clone_unchecked(path) == "flake8"

\* Lines 516-517: without a path run_analysis returns, through its finally.
after_clone(path) == IF path = None THEN "finally" ELSE "flake8"

\* Lines 513-517.
Clone ==
    /\ pc = "clone"
    /\ \E git \in GitOutcomes, temp_dir \in mkdtemp(previous) :
         LET cloned == clone_repository(analysis_results, git, temp_dir)
         IN  /\ repo_path' = cloned.repo_path
             /\ temp_dir_exists' = cloned.temp_dir_exists
             /\ analysis_results' = cloned.analysis_results
             /\ workspace' \in (IF git = "cloned" THEN Workspaces ELSE {EmptyWorkspace})
             /\ pc' = after_clone(cloned.repo_path)
    /\ UNCHANGED <<env, rmtree_calls, previous>>

\* Whether the analyzer runs its external tool on this workspace.
RunsTool(ws, tool) ==
    IF tool = "eslint"
    THEN ws.source_files /\ \E config \in eslint_config : exists(ws, config)
    ELSE ws.python_files

\* Lines 520-521.
RunFlake8 ==
    /\ pc = "flake8"
    /\ \E proc \in (IF RunsTool(workspace, "flake8") THEN Flake8Procs ELSE {Skipped}) :
         /\ analysis_results' =
                [analysis_results EXCEPT
                    !.code_quality = ("flake8" :> run_flake8_analysis(workspace, proc)) @@ @]
         /\ env' = [env EXCEPT !.flake8 = proc]
    /\ pc' = "radon"
    /\ UNCHANGED <<repo_path, temp_dir_exists, workspace, rmtree_calls, previous>>

\* Lines 523-524.
RunRadon ==
    /\ pc = "radon"
    /\ \E proc \in (IF RunsTool(workspace, "radon") THEN RadonProcs ELSE {Skipped}) :
         /\ analysis_results' =
                [analysis_results EXCEPT !.complexity = run_radon_analysis(workspace, proc)]
         /\ env' = [env EXCEPT !.radon = proc]
    /\ pc' = "eslint"
    /\ UNCHANGED <<repo_path, temp_dir_exists, workspace, rmtree_calls, previous>>

\* Lines 526-527.
RunEslint ==
    /\ pc = "eslint"
    /\ \E proc \in (IF RunsTool(workspace, "eslint") THEN EslintProcs ELSE {Skipped}) :
         /\ analysis_results' =
                [analysis_results EXCEPT
                    !.code_quality = ("eslint" :> run_eslint_analysis(workspace, proc)) @@ @]
         /\ env' = [env EXCEPT !.eslint = proc]
    /\ pc' = "documentation"
    /\ UNCHANGED <<repo_path, temp_dir_exists, workspace, rmtree_calls, previous>>

\* Lines 529-530.  Only an existing README can fail to open.
AnalyzeDocumentation ==
    /\ pc = "documentation"
    /\ \E fs \in (IF workspace.readme.present THEN FileReads ELSE {Skipped}) :
         /\ analysis_results' =
                [analysis_results EXCEPT !.documentation = analyze_documentation(workspace, fs)]
         /\ env' = [env EXCEPT !.documentation = fs]
    /\ pc' = "dependencies"
    /\ UNCHANGED <<repo_path, temp_dir_exists, workspace, rmtree_calls, previous>>

\* Lines 532-533.
AnalyzeDependencies ==
    /\ pc = "dependencies"
    /\ \E fs \in FileReads :
         /\ analysis_results' =
                [analysis_results EXCEPT !.dependencies = analyze_dependencies(workspace, fs)]
         /\ env' = [env EXCEPT !.dependencies = fs]
    /\ pc' = "security"
    /\ UNCHANGED <<repo_path, temp_dir_exists, workspace, rmtree_calls, previous>>

\* Lines 535-536.
AnalyzeSecurity ==
    /\ pc = "security"
    /\ \E fs \in FileReads :
         /\ analysis_results' =
                [analysis_results EXCEPT !.security = analyze_security(workspace, fs)]
         /\ env' = [env EXCEPT !.security = fs]
    /\ pc' = "aggregate"
    /\ UNCHANGED <<repo_path, temp_dir_exists, workspace, rmtree_calls, previous>>

\* Lines 538-539.
CalculateAggregate ==
    /\ pc = "aggregate"
    /\ analysis_results' = calculate_aggregate_scores(analysis_results)
    /\ pc' = "finally"
    /\ UNCHANGED <<repo_path, temp_dir_exists, workspace, env, rmtree_calls, previous>>

\* Lines 541-543: an exception raised in the try body outside the analyzers'
\* own handlers (a print to a closed stderr, a MemoryError).
analysis_failed(results) == [results EXCEPT !.errors = Append(@, "Analysis failed")]

AnalysisFailed ==
    /\ pc \in TryPositions
    /\ analysis_results' = analysis_failed(analysis_results)
    /\ pc' = "finally"
    /\ UNCHANGED <<repo_path, temp_dir_exists, workspace, env, rmtree_calls, previous>>

\* removes with the existence test of line 547 inverted.
removes_missing(path, on_disk) == path # None /\ ~on_disk

\* Line 547: whether the finally block calls shutil.rmtree.
removes(path, on_disk) == path # None /\ on_disk

\* cleanup_failed recording the failure as an error.
cleanup_failed_as_error(results) == [results EXCEPT !.errors = Append(@, "Failed to cleanup")]

\* Lines 551-552: the report after a failed shutil.rmtree.
cleanup_failed(results) == [results EXCEPT !.warnings = Append(@, "Failed to cleanup")]

\* Lines 545-554.  A failed rmtree leaves the directory.
Cleanup ==
    /\ pc = "finally"
    /\ IF removes(repo_path, temp_dir_exists)
       THEN \E removed \in BOOLEAN :
              /\ rmtree_calls' = rmtree_calls + 1
              /\ temp_dir_exists' = ~removed
              /\ analysis_results' =
                    IF removed THEN analysis_results ELSE cleanup_failed(analysis_results)
       ELSE UNCHANGED <<rmtree_calls, temp_dir_exists, analysis_results>>
    /\ pc' = "returned"
    /\ UNCHANGED <<repo_path, workspace, env, previous>>

Next ==
    \/ Clone
    \/ RunFlake8
    \/ RunRadon
    \/ RunEslint
    \/ AnalyzeDocumentation
    \/ AnalyzeDependencies
    \/ AnalyzeSecurity
    \/ CalculateAggregate
    \/ AnalysisFailed
    \/ Cleanup

Spec == Init /\ [][Next]_vars

\* ------------------------------------------------ documentation scoring
\* analyze_documentation over every README: run_analysis has cloned a
\* repository that holds nothing but a README file and stands at line 529,
\* the three tool analyzers having found no file of theirs.
ReadmeWorkspaces == {[EmptyWorkspace EXCEPT !.readme = readme] : readme \in ReadmeFiles}

DocumentationInit ==
    /\ pc = "documentation"
    /\ repo_path = "temp_dir"
    /\ temp_dir_exists = TRUE
    /\ workspace \in ReadmeWorkspaces
    /\ analysis_results =
        [new_results(0) EXCEPT
            !.code_quality = ("flake8" :> run_flake8_analysis(workspace, Skipped))
                                @@ ("eslint" :> run_eslint_analysis(workspace, Skipped)),
            !.complexity = run_radon_analysis(workspace, Skipped)]
    /\ env = [a \in Analyzers |->
                IF a \in {"flake8", "radon", "eslint"} THEN Skipped ELSE NotInvoked]
    /\ rmtree_calls = 0
    /\ previous = NoPreviousRun

DocumentationNext == AnalyzeDocumentation

DocumentationSpec == DocumentationInit /\ [][DocumentationNext]_vars

\* ------------------------------------------------------------ properties
Range(seq) == {seq[i] : i \in DOMAIN seq}
Returned == pc = "returned"
Acquired == repo_path # None
Invoked(a) == env[a] # NotInvoked
Aggregated == "aggregate" \in DOMAIN analysis_results
Slots == {"code_quality", "complexity", "documentation", "dependencies", "security"}

\* The Report entry of an analyzer that was invoked.
Result(a) ==
    IF a \in {"flake8", "eslint"} THEN analysis_results.code_quality[a]
    ELSE IF a = "radon" THEN analysis_results.complexity
    ELSE analysis_results[a]

\* The score an entry carries.
ScoreOf(a) == IF a = "radon" THEN Result(a).complexity_score ELSE Result(a).score

\* What really happened to an invoked analyzer: it produced a signal (ok),
\* had nothing applicable to look at (no-signal), was stopped by its timeout,
\* or its tool was unavailable, crashed or wrote output that does not parse.
Status(a) ==
    LET e == env[a]
    IN  IF e.kind = "skipped" THEN "no-signal"
        ELSE IF e.kind = "TimeoutExpired" THEN "timeout"
        ELSE IF e.kind = "Exception" THEN "error"
        ELSE IF a = "flake8" THEN (IF e.crashed THEN "error" ELSE "ok")
        ELSE IF a = "radon"
        THEN (IF e.returncode # 0 \/ ~e.stdout.json THEN "error"
              ELSE IF e.stdout.functions = <<>> THEN "no-signal" ELSE "ok")
        ELSE IF a = "eslint"
        THEN (IF e.returncode \notin {0, 1} \/ ~e.stdout.json THEN "error" ELSE "ok")
        ELSE "ok"

\* The weighted mean (0.4, 0.4, 0.2, renormalised) over the analyzers that
\* produced a signal, in hundredths; the neutral default 50 when none did.
SignalMean ==
    LET w(a, tenths) == IF Status(a) = "ok" THEN tenths ELSE 0
        total == w("flake8", 4) + w("eslint", 4) + w("radon", 2)
    IN  IF total = 0 THEN 5000
        ELSE Round2(ScoreOf("flake8") * w("flake8", 4) + ScoreOf("eslint") * w("eslint", 4)
                        + ScoreOf("radon") * w("radon", 2), total)

\* C1 as stated: every run that acquired its workspace returns with the
\* directory removed, after exactly one removal.
C1_RemovedExactlyOnce ==
    (Returned /\ Acquired) => (~temp_dir_exists /\ rmtree_calls = 1)

\* C1 as amended: removal is attempted exactly once on every exit path of a
\* run that acquired its workspace, never before the finally block and never
\* twice; the directory is still there at the return only when that one
\* attempt failed, and then exactly one warning records it.
C1_ReleaseAttemptedOnce ==
    /\ rmtree_calls <= 1
    /\ ~Returned => rmtree_calls = 0
    /\ (Returned /\ Acquired) =>
          /\ rmtree_calls = 1
          /\ temp_dir_exists <=> analysis_results.warnings = <<"Failed to cleanup">>
          /\ ~temp_dir_exists => analysis_results.warnings = <<>>

\* C1's case: an exception ended the analysis and the directory was removed.
C1_Witness ==
    /\ Returned /\ Acquired /\ ~temp_dir_exists
    /\ "Analysis failed" \in Range(analysis_results.errors)

\* C2: when acquisition fails, the directory clone_repository made no longer
\* exists when run_analysis returns.
C2_PartialWorkspaceReleased ==
    (Returned /\ ~Acquired) => ~temp_dir_exists

\* C3: no analyzer is invoked before acquisition succeeded; when it fails no
\* analyzer is ever invoked, the Report has exactly one error, every result
\* slot is empty and there is no aggregate.
C3_NoAnalysisWithoutWorkspace ==
    /\ pc \in TryPositions => Acquired
    /\ \A a \in Analyzers : Invoked(a) => Acquired
    /\ (pc = "finally" /\ ~Acquired) \/ (Returned /\ ~Acquired) =>
          /\ \A a \in Analyzers : ~Invoked(a)
          /\ Len(analysis_results.errors) = 1
          /\ \A slot \in Slots : analysis_results[slot] = EmptyDict
          /\ ~Aggregated

\* C3's case: the clone timed out and run_analysis returned.
C3_Witness ==
    /\ Returned /\ ~Acquired
    /\ analysis_results.errors = <<"Repository cloning timed out">>

\* An analyzer entry marked as failed: it carries an error or a timeout.
Marked(a) == DOMAIN Result(a).details \cap {"error", "timeout"} # {}

\* C4: after a successful acquisition, whatever each analyzer's outcome,
\* every analyzer is invoked and has its entry in the Report, a failed
\* analyzer's entry is marked as error or timeout, and the aggregate is
\* computed from the remaining analyzers.
C4_Isolation ==
    (Returned /\ Acquired /\ "Analysis failed" \notin Range(analysis_results.errors)) =>
        /\ \A a \in Analyzers : Invoked(a)
        /\ DOMAIN analysis_results.code_quality = {"flake8", "eslint"}
        /\ \A slot \in Slots : analysis_results[slot] # EmptyDict
        /\ \A a \in Analyzers : Status(a) \in {"error", "timeout"} => Marked(a)
        /\ Aggregated
        /\ analysis_results.aggregate.code_quality_score = SignalMean

\* The part of C4 that the code keeps: every analyzer runs and leaves its entry.
EveryAnalyzerRuns ==
    (Returned /\ Acquired /\ "Analysis failed" \notin Range(analysis_results.errors)) =>
        /\ \A a \in Analyzers : Invoked(a)
        /\ DOMAIN analysis_results.code_quality = {"flake8", "eslint"}
        /\ \A slot \in Slots : analysis_results[slot] # EmptyDict
        /\ Aggregated

\* C5: every per-analyzer score written to the Report is in [0,100].
C5_ScoresInRange ==
    \A a \in Analyzers : Invoked(a) => ScoreOf(a) \in 0..100

\* C6: the composite code_quality_score is in [0,100], and it is the neutral
\* default 50 when flake8, eslint and complexity all score 0.
C6_CompositeInRange ==
    Aggregated =>
        /\ analysis_results.aggregate.code_quality_score \in 0..(100 * 100)
        /\ (ScoreOf("flake8") = 0 /\ ScoreOf("eslint") = 0 /\ ScoreOf("radon") = 0)
              => analysis_results.aggregate.code_quality_score = 50 * 100

\* C6's case: the three analyzers ran their tools, all failed, and the
\* aggregate was computed.
C6_Witness ==
    /\ Aggregated
    /\ \A a \in {"flake8", "eslint", "radon"} : Status(a) \in {"error", "timeout"}
    /\ ScoreOf("flake8") = 0 /\ ScoreOf("eslint") = 0 /\ ScoreOf("radon") = 0
    /\ analysis_results.aggregate.code_quality_score = 50 * 100

\* C7: the composite is the weighted mean over exactly the analyzers that
\* produced a signal; no-signal, error and timeout weigh nothing.
C7_OnlySignalsWeigh ==
    Aggregated => analysis_results.aggregate.code_quality_score = SignalMean

\* C8: a tool that is unavailable, crashes or writes unparseable output
\* leaves an error diagnostic in its analyzer's details.
C8_ToolFailureIsError ==
    \A a \in {"flake8", "radon", "eslint"} :
        (Invoked(a) /\ Status(a) = "error") => "error" \in DOMAIN Result(a).details

\* C9: a failed removal appends exactly one warning, appends nothing to
\* errors, lets run_analysis return, and leaves every result and the
\* aggregate as a successful removal leaves them: untouched.
C9_CleanupFailureIsWarning ==
    [][(pc = "finally" /\ rmtree_calls' = rmtree_calls + 1 /\ temp_dir_exists') =>
          /\ pc' = "returned"
          /\ analysis_results'.warnings = Append(analysis_results.warnings, "Failed to cleanup")
          /\ analysis_results'.errors = analysis_results.errors
          /\ [analysis_results' EXCEPT !.warnings = analysis_results.warnings] = analysis_results]_vars

\* A successful removal leaves the whole Report as it was.
CleanupSuccessKeepsReport ==
    [][(pc = "finally" /\ rmtree_calls' = rmtree_calls + 1 /\ ~temp_dir_exists') =>
          (pc' = "returned" /\ analysis_results' = analysis_results)]_vars

\* C9's case: the analysis completed, removal failed, run_analysis returned.
C9_Witness ==
    /\ Returned /\ Acquired /\ Aggregated
    /\ rmtree_calls = 1 /\ temp_dir_exists
    /\ analysis_results.warnings = <<"Failed to cleanup">>
    /\ analysis_results.errors = <<>>

C11_Readability(readme) ==
    LET n == IF readme.sentences = 0 THEN 1 ELSE readme.sentences
    IN  CASE readme.words <= 15 * n -> 90
          [] readme.words > 15 * n /\ readme.words <= 25 * n -> 70
          [] readme.words > 25 * n /\ readme.words <= 40 * n -> 50
          [] readme.words > 40 * n -> 30

\* The documentation score the claim assigns to a README.
C11_Score(readme) ==
    LET bonus(section, points) == IF section \in readme.sections THEN points ELSE 0
        raw == 40 + bonus("installation", 15) + bonus("usage", 10)
                  + bonus("contributing", 10) + bonus("license", 10)
                  + (IF readme.code_examples >= 1 THEN 15 ELSE 0)
                  + (C11_Readability(readme) - 50) \div 2
    IN  IF raw < 0 THEN 0 ELSE IF raw > 100 THEN 100 ELSE raw

\* C11 as stated: for every README file the repository holds, the
\* documentation score is 40 plus the section bonuses plus the code-example
\* bonus plus (readability - 50)/2, clamped to [0,100], and the readability
\* is the band of the average sentence length.
C11_EveryReadme ==
    (Invoked("documentation") /\ workspace.readme.present) =>
        /\ Result("documentation").score = C11_Score(workspace.readme)
        /\ Result("documentation").readability_score = C11_Readability(workspace.readme)

\* C11: for every README that is not empty and that analyze_documentation
\* could read, the documentation score is 40 plus the section bonuses plus
\* the code-example bonus plus (readability - 50)/2, clamped to [0,100], and
\* the readability is the band of the average sentence length; a README
\* with three sections, a code block and 12 words a sentence has
\* readability 90 and a score of at most 100.
C11_ReadmeRead ==
    (Invoked("documentation") /\ workspace.readme.length > 0
        /\ env.documentation.kind = "read") =>
        /\ Result("documentation").score = C11_Score(workspace.readme)
        /\ Result("documentation").readability_score = C11_Readability(workspace.readme)
        /\ Result("documentation").score \in 0..100
        /\ (/\ Cardinality(workspace.readme.sections) = 3
            /\ workspace.readme.code_examples = 1
            /\ workspace.readme.words = 12 * workspace.readme.sentences)
            => Result("documentation").readability_score = 90

\* C11's case: the README of the scenario (three sections, one code block,
\* 12 words a sentence) was analyzed; its 110 points were clamped to 100.
C11_Witness ==
    /\ Invoked("documentation") /\ env.documentation.kind = "read"
    /\ workspace.readme.sections = {"installation", "usage", "license"}
    /\ workspace.readme.code_examples = 1
    /\ workspace.readme.sentences > 0
    /\ workspace.readme.words = 12 * workspace.readme.sentences
    /\ Result("documentation").readability_score = 90
    /\ Result("documentation").score = 100

\* ------------------------------------------------------------- two runs
\* The script is run a second time (lines 604-606: a new RepositoryAnalyzer,
\* a new run_analysis) on the repository snapshot of the first run, the
\* external tools and the filesystem answering as they did then.  The time,
\* the name mkdtemp gives, the exceptions of the try body and the outcome
\* of rmtree are free in both runs.

\* The snapshots the two runs are taken over: the empty repository, and
\* the repository with Python and JS/TS files, every marker file, a README
\* with every section and readable workflow files.
Snapshots ==
    {EmptyWorkspace} \cup
    {ws \in Workspaces :
        /\ ws.python_files /\ ws.source_files
        /\ ws.files = UNION Range(MarkerGroups)
        /\ ws.readme.sections = Sections
        /\ ws.workflows # <<>> /\ \A i \in DOMAIN ws.workflows : ws.workflows[i].readable}

\* The two runs are taken with a filesystem that can be read.
Readable == \A a \in {"documentation", "dependencies", "security"} : env[a].kind # "Exception"

\* What a report says of the repository: everything but its time and its
\* lists of errors and warnings.
Scores(results) ==
    [key \in DOMAIN results \ {"repository", "timestamp", "errors", "warnings"} |->
        results[key]]

\* The second run sees what the first run saw.
Replays ==
    previous.kind = "run" =>
        /\ (Acquired /\ previous.repo_path # None) => workspace = previous.workspace
        /\ \A a \in Analyzers :
              (Invoked(a) /\ previous.env[a] # NotInvoked) => env[a] = previous.env[a]

\* Lines 604-606 and 29-42, in a second run of the script, a second after
\* the first.
NewRun ==
    /\ pc = "returned"
    /\ previous = NoPreviousRun
    /\ previous' =
        [kind |-> "run", workspace |-> workspace, env |-> env,
         repo_path |-> repo_path, temp_dir_exists |-> temp_dir_exists,
         timestamp |-> analysis_results.timestamp, scores |-> Scores(analysis_results)]
    /\ analysis_results' = new_results(analysis_results.timestamp + 1)
    /\ pc' = "clone"
    /\ repo_path' = None
    /\ temp_dir_exists' = FALSE
    /\ workspace' = EmptyWorkspace
    /\ env' = [a \in Analyzers |-> NotInvoked]
    /\ rmtree_calls' = 0

\* A step of either run stays within the snapshots, the readable
\* filesystem and, in the second run, what the first run saw.
Shared == workspace \in Snapshots /\ Readable /\ Replays

TwoRunsNext ==
    \/ Clone /\ Shared'
    \/ RunFlake8 /\ Shared'
    \/ RunRadon /\ Shared'
    \/ RunEslint /\ Shared'
    \/ AnalyzeDocumentation /\ Shared'
    \/ AnalyzeDependencies /\ Shared'
    \/ AnalyzeSecurity /\ Shared'
    \/ CalculateAggregate /\ Shared'
    \/ AnalysisFailed /\ Shared'
    \/ Cleanup /\ Shared'
    \/ NewRun

TwoRunsSpec == Init /\ [][TwoRunsNext]_vars

\* The entry of an analyzer in the report of the first run.
EarlierResult(a) ==
    IF a \in {"flake8", "eslint"} THEN previous.scores.code_quality[a]
    ELSE IF a = "radon" THEN previous.scores.complexity
    ELSE previous.scores[a]

CodeWorkspace ==
    [EmptyWorkspace EXCEPT !.python_files = TRUE, !.source_files = TRUE,
                           !.files = {"package.json"}]

Tools == {"flake8", "radon", "eslint"}

PlainSignal ==
    [flake8 |-> [kind |-> "completed", returncode |-> 0, lines |-> 0, critical |-> 0,
                 crashed |-> FALSE],
     radon |-> [kind |-> "completed", returncode |-> 0,
                stdout |-> [json |-> TRUE, functions |-> <<1>>]],
     eslint |-> [kind |-> "completed", returncode |-> 0,
                 stdout |-> [json |-> TRUE, total |-> 0, critical |-> 0]]]

Signals == [flake8 |-> Flake8Signals, radon |-> RadonSignals, eslint |-> EslintSignals]

\* What a tool can do: anything, until one tool gave another signal than
\* its plain one.
ToolOutcomes(tool) ==
    LET plain == {PlainSignal[tool], Raised("TimeoutExpired")}
    IN  IF \A t \in Tools : env[t] \in {NotInvoked, PlainSignal[t], Raised("TimeoutExpired")}
        THEN plain \cup Signals[tool]
        ELSE plain

\* Lines 513-517: the clone succeeded.
SignalsInit ==
    /\ pc = "flake8"
    /\ repo_path = "temp_dir"
    /\ temp_dir_exists = TRUE
    /\ workspace = CodeWorkspace
    /\ analysis_results = new_results(0)
    /\ env = [a \in Analyzers |-> NotInvoked]
    /\ rmtree_calls = 0
    /\ previous = NoPreviousRun

\* Lines 520-521.
SignalFlake8 ==
    /\ pc = "flake8"
    /\ \E proc \in ToolOutcomes("flake8") :
         /\ analysis_results' =
                [analysis_results EXCEPT
                    !.code_quality = ("flake8" :> run_flake8_analysis(workspace, proc)) @@ @]
         /\ env' = [env EXCEPT !.flake8 = proc]
    /\ pc' = "radon"
    /\ UNCHANGED <<repo_path, temp_dir_exists, workspace, rmtree_calls, previous>>

\* Lines 523-524.
SignalRadon ==
    /\ pc = "radon"
    /\ \E proc \in ToolOutcomes("radon") :
         /\ analysis_results' =
                [analysis_results EXCEPT !.complexity = run_radon_analysis(workspace, proc)]
         /\ env' = [env EXCEPT !.radon = proc]
    /\ pc' = "eslint"
    /\ UNCHANGED <<repo_path, temp_dir_exists, workspace, rmtree_calls, previous>>

\* Lines 526-527.
SignalEslint ==
    /\ pc = "eslint"
    /\ \E proc \in ToolOutcomes("eslint") :
         /\ analysis_results' =
                [analysis_results EXCEPT
                    !.code_quality = ("eslint" :> run_eslint_analysis(workspace, proc)) @@ @]
         /\ env' = [env EXCEPT !.eslint = proc]
    /\ pc' = "documentation"
    /\ UNCHANGED <<repo_path, temp_dir_exists, workspace, rmtree_calls, previous>>

SignalsNext ==
    \/ SignalFlake8
    \/ SignalRadon
    \/ SignalEslint
    \/ AnalyzeDocumentation
    \/ AnalyzeDependencies
    \/ AnalyzeSecurity
    \/ CalculateAggregate

SignalsSpec == SignalsInit /\ [][SignalsNext]_vars

\* The scores the claim gives a tool that produced a signal.
C13_Range(tool) ==
    IF tool = "flake8" THEN 30..90
    ELSE IF tool = "eslint" THEN 20..80
    ELSE {20, 40, 70, 90}

\* C13: a tool (flake8, eslint, radon) that ran to its end and whose output
\* parsed, with a function measured in the case of radon, has a score above
\* 0 and within its range (flake8 30..90, eslint 20..80, complexity 20, 40,
\* 70 or 90), whatever the number of findings and the average complexity;
\* so the composite is the weighted mean over exactly the tools that
\* produced a signal, none of them dropped by the test 'score > 0'.
C13_SignalsWeigh ==
    /\ \A tool \in Tools :
          (Invoked(tool) /\ Status(tool) = "ok") =>
              ScoreOf(tool) > 0 /\ ScoreOf(tool) \in C13_Range(tool)
    /\ Aggregated => analysis_results.aggregate.code_quality_score = SignalMean

\* C13's case: flake8 reported so many findings that its penalty is capped
\* (score 30), radon and eslint ran into their timeouts, and the composite
\* is flake8's score.
C13_Witness ==
    /\ Aggregated
    /\ Status("flake8") = "ok" /\ env.flake8.lines = MaxFindings
    /\ env.flake8.critical = MaxFindings
    /\ ScoreOf("flake8") = 30
    /\ Status("radon") = "timeout" /\ Status("eslint") = "timeout"
    /\ analysis_results.aggregate.code_quality_score = 30 * 100

====
